---- MODULE Spec2Model ----
(***************************************************************************)
(* pydigitize (scan.py): the command-line front end (argument and profile  *)
(* resolution), Scan.__init__ (resolution check, timestamp, output path)   *)
(* and Scan.process (the pipeline of external tools).                      *)
(*                                                                         *)
(* Strings are sequences of characters (each a one-character TLA+ string), *)
(* so that split, strip, int(), re.sub, slugify, dirname, join and abspath *)
(* are computed, not assumed.  A few opaque names (the mkdtemp directory   *)
(* names, "tmp", profile keys) are single tokens of such a sequence.       *)
(* An optional value (Python's None or a value) is <<>> or <<v>>.          *)
(***************************************************************************)
EXTENDS Integers, Sequences, FiniteSets, TLC

\* ------------------------------------------------------------------ bounds
MaxResLen == 3
MaxPathLen == 3
MaxNameLen == 3
MaxDateLen == 3
MaxKeywordsLen == 3
MaxProfileLen == 3

\* ------------------------------------------------------- generic helpers
None == <<>>
Some(v) == <<v>>
IsNone(o) == o = <<>>
Val(o) == o[1]

StringsUpTo(alphabet, n) == UNION {[1..k -> alphabet] : k \in 0..n}

Range(s) == {s[i] : i \in 1..Len(s)}

\* str.split(sep): never empty, '' splits to [''].
RECURSIVE SplitAcc(_, _, _, _)
SplitAcc(s, sep, cur, acc) ==
    IF s = <<>> THEN Append(acc, cur)
    ELSE IF Head(s) = sep THEN SplitAcc(Tail(s), sep, <<>>, Append(acc, cur))
    ELSE SplitAcc(Tail(s), sep, Append(cur, Head(s)), acc)
Split(s, sep) == SplitAcc(s, sep, <<>>, <<>>)

\* sep.join(parts)
RECURSIVE Join(_, _)
Join(parts, sep) ==
    IF parts = <<>> THEN <<>>
    ELSE IF Len(parts) = 1 THEN parts[1]
    ELSE parts[1] \o <<sep>> \o Join(Tail(parts), sep)

IsSpace(c) == c = " "
RECURSIVE LStrip(_)
LStrip(s) == IF s # <<>> /\ IsSpace(Head(s)) THEN LStrip(Tail(s)) ELSE s
RECURSIVE RStrip(_)
RStrip(s) == IF s # <<>> /\ IsSpace(s[Len(s)]) THEN RStrip(SubSeq(s, 1, Len(s) - 1)) ELSE s
\* str.strip()
Strip(s) == RStrip(LStrip(s))

Digits == {"0", "1", "2", "3", "4", "5", "6", "7", "8", "9"}
IsDigit(c) == c \in Digits
DigitVal(c) ==
    CASE c = "0" -> 0 [] c = "1" -> 1 [] c = "2" -> 2 [] c = "3" -> 3 [] c = "4" -> 4
      [] c = "5" -> 5 [] c = "6" -> 6 [] c = "7" -> 7 [] c = "8" -> 8 [] c = "9" -> 9
DigitChar(n) ==
    CASE n = 0 -> "0" [] n = 1 -> "1" [] n = 2 -> "2" [] n = 3 -> "3" [] n = 4 -> "4"
      [] n = 5 -> "5" [] n = 6 -> "6" [] n = 7 -> "7" [] n = 8 -> "8" [] n = 9 -> "9"

\* ----------------------------------------------------- int(resolution)
\* The digits of a literal body, '_' allowed only between two digits.
ValidIntBody(b) ==
    /\ b # <<>>
    /\ \A i \in 1..Len(b) :
          \/ IsDigit(b[i])
          \/ /\ b[i] = "_"
             /\ i > 1 /\ i < Len(b)
             /\ IsDigit(b[i - 1]) /\ IsDigit(b[i + 1])

RECURSIVE DecValue(_, _)
DecValue(b, acc) ==
    IF b = <<>> THEN acc
    ELSE IF Head(b) = "_" THEN DecValue(Tail(b), acc)
    ELSE DecValue(Tail(b), 10 * acc + DigitVal(Head(b)))

\* Python's int(str): surrounding whitespace stripped, an optional sign, decimal
\* digits.  None stands for ValueError.
IntOf(s) ==
    LET t == Strip(s)
        signed == t # <<>> /\ t[1] \in {"+", "-"}
        body == IF signed THEN Tail(t) ELSE t
    IN  IF ValidIntBody(body)
        THEN Some(IF signed /\ t[1] = "-" THEN 0 - DecValue(body, 0) ELSE DecValue(body, 0))
        ELSE None

VALID_RESOLUTIONS == {100, 200, 300, 400, 600}

\* Mutant of ResolutionOk: any integer is accepted.
ResolutionOkAnyInteger(resolution) == ~IsNone(IntOf(resolution))

\* The outcome of the resolution check of Scan.__init__: TRUE when the
\* constructor goes on, FALSE when _invalid_res() prints and exits.
ResolutionOk(resolution) ==
    LET v == IntOf(resolution)
    IN  IF IsNone(v) THEN FALSE              \* except ValueError: _invalid_res()
        ELSE Val(v) \in VALID_RESOLUTIONS    \* not in VALID_RESOLUTIONS: _invalid_res()

\* ------------------------------------------------------------ timestamp
\* datetime.datetime.now() at import time.
START_TIME == [year |-> 2016, month |-> 3, day |-> 27, hour |-> 9, minute |-> 5, second |-> 40]

RECURSIVE Pad(_, _)
\* n as w zero-padded decimal digits
Pad(n, w) == IF w = 0 THEN <<>> ELSE Pad(n \div 10, w - 1) \o <<DigitChar(n % 10)>>

\* START_TIME.strftime('%Y%m%d-%H%M%S')
Strftime(t) ==
    Pad(t.year, 4) \o Pad(t.month, 2) \o Pad(t.day, 2) \o <<"-">>
      \o Pad(t.hour, 2) \o Pad(t.minute, 2) \o Pad(t.second, 2)

\* re.sub(r'[^0-9]', '', datestring)
StripNonDigits(datestring) == SelectSeq(datestring, IsDigit)

\* Mutant of Timestamp: the date string is used as given.
TimestampUnstripped(datestring) ==
    IF IsNone(datestring) THEN Strftime(START_TIME)
    ELSE IF Val(datestring) # <<>> THEN Val(datestring) ELSE Strftime(START_TIME)

\* The timestamp of Scan.__init__ (datestring: None or a string).
Timestamp(datestring) ==
    IF IsNone(datestring) THEN Strftime(START_TIME)
    ELSE LET stripped == StripNonDigits(Val(datestring))
         IN  IF stripped # <<>> THEN stripped ELSE Strftime(START_TIME)

\* -------------------------------------------------------------- slugify
Lower(c) ==
    CASE c = "M" -> "m" [] c = "D" -> "d" [] OTHER -> c
IsAlnum(c) == IsDigit(c) \/ c \in {"M", "D", "m", "d", "y", "o", "c"}

RECURSIVE WordsAcc(_, _, _)
\* the maximal runs of alphanumeric characters of s
WordsAcc(s, cur, acc) ==
    IF s = <<>> THEN (IF cur = <<>> THEN acc ELSE Append(acc, cur))
    ELSE IF IsAlnum(Head(s)) THEN WordsAcc(Tail(s), Append(cur, Head(s)), acc)
    ELSE WordsAcc(Tail(s), <<>>, IF cur = <<>> THEN acc ELSE Append(acc, cur))

\* slugify(name, to_lower=True): lower-cased alphanumeric words joined by '-'.
Slugify(name) ==
    Join(WordsAcc([i \in 1..Len(name) |-> Lower(name[i])], <<>>, <<>>), "-")

\* ------------------------------------------------------------- os.path
\* The process's working directory when Scan is constructed.
Getcwd == <<"/", "w">>

StartsWith(s, pre) == Len(s) >= Len(pre) /\ SubSeq(s, 1, Len(pre)) = pre
AllSlashes(s) == \A i \in 1..Len(s) : s[i] = "/"
RECURSIVE RStripSlash(_)
RStripSlash(s) == IF s # <<>> /\ s[Len(s)] = "/" THEN RStripSlash(SubSeq(s, 1, Len(s) - 1)) ELSE s

\* The index of the last '/' of p, 0 when there is none (p.rfind('/') + 1).
LastSlash(p) == IF \E i \in 1..Len(p) : p[i] = "/"
                THEN CHOOSE i \in 1..Len(p) : p[i] = "/" /\ \A j \in (i + 1)..Len(p) : p[j] # "/"
                ELSE 0

\* posixpath.dirname
Dirname(p) ==
    LET head == SubSeq(p, 1, LastSlash(p))
    IN  IF head # <<>> /\ ~AllSlashes(head) THEN RStripSlash(head) ELSE head

IsAbs(p) == StartsWith(p, <<"/">>)

\* posixpath.join(a, b)
PathJoin(a, b) ==
    IF IsAbs(b) THEN b
    ELSE IF a = <<>> \/ a[Len(a)] = "/" THEN a \o b
    ELSE a \o <<"/">> \o b

RECURSIVE NormComps(_, _, _)
\* the loop of posixpath.normpath over path.split('/')
NormComps(comps, new, initial) ==
    IF comps = <<>> THEN new
    ELSE LET c == Head(comps)
         IN  IF c = <<>> \/ c = <<".">> THEN NormComps(Tail(comps), new, initial)
             ELSE IF \/ c # <<".", ".">>
                     \/ (initial = 0 /\ new = <<>>)
                     \/ (new # <<>> /\ new[Len(new)] = <<".", ".">>)
                  THEN NormComps(Tail(comps), Append(new, c), initial)
             ELSE IF new # <<>>
                  THEN NormComps(Tail(comps), SubSeq(new, 1, Len(new) - 1), initial)
             ELSE NormComps(Tail(comps), new, initial)

\* posixpath.normpath
Normpath(p) ==
    IF p = <<>> THEN <<".">>
    ELSE LET initial == IF ~IsAbs(p) THEN 0
                        ELSE IF StartsWith(p, <<"/", "/">>) /\ ~StartsWith(p, <<"/", "/", "/">>)
                             THEN 2 ELSE 1
             body == Join(NormComps(Split(p, "/"), <<>>, initial), "/")
             out == [i \in 1..initial |-> "/"] \o body
         IN  IF out = <<>> THEN <<".">> ELSE out

\* os.path.abspath
Abspath(p) == Normpath(IF IsAbs(p) THEN p ELSE PathJoin(Getcwd, p))

\* The directory a path names, as the kernel resolves it: its components from
\* the root.
Resolve(p) == NormComps(Split(PathJoin(Getcwd, p), "/"), <<>>, 1)

\* os.path.isdir against the set of existing directories
IsDir(p, ds) == p # <<>> /\ Resolve(p) \in ds

\* ------------------------------------------------------------- profiles
\* A value of the TOML document: a table, a string, a boolean or a list of strings.
Dict(f) == [t |-> "dict", v |-> f]
Str(x) == [t |-> "str", v |-> x]
Bool(b) == [t |-> "bool", v |-> b]
List(l) == [t |-> "list", v |-> l]

\* The characters of a key, for Python's substring test on a string value.
KeyChars(k) ==
    CASE k = "path" -> <<"p", "a", "t", "h">>
      [] k = "name" -> <<"n", "a", "m", "e">>
      [] k = "ocr" -> <<"o", "c", "r">>
      [] k = "keywords" -> <<"k", "e", "y", "w", "o", "r", "d", "s">>

IsSubstring(sub, x) ==
    \E i \in 1..(Len(x) - Len(sub) + 1) : SubSeq(x, i, i + Len(sub) - 1) = sub

\* '%s.%s' % (prefix, k), or k alone
NewPrefix(k, prefix) == IF IsNone(prefix) THEN <<k>> ELSE Val(prefix) \o <<".", k>>

RECURSIVE ParseProfile(_, _, _)
\* _parse_profile: the names appended to all_profiles for key k with value v
ParseProfile(k, v, prefix) ==
    IF v.t = "dict"
    THEN {NewPrefix(k, prefix)} \cup
         UNION {ParseProfile(kk, v.v[kk], Some(NewPrefix(k, prefix))) : kk \in DOMAIN v.v}
    ELSE {}

\* all_profiles, as a set (it is only printed, sorted)
AllProfiles(doc) == UNION {ParseProfile(k, doc.v[k], None) : k \in DOMAIN doc.v}

\* profile.get(part) on a table.  A part is a string; it is a key when it is
\* exactly one key token.
DictGet(profile, part) ==
    IF Len(part) = 1 /\ part[1] \in DOMAIN profile.v THEN Some(profile.v[part[1]]) ELSE None

RECURSIVE FindProfile(_, _)
\* The loop over profile_parts: "found" with the value reached, "notfound"
\* (found is None), or "error" (.get on a value that is no table: AttributeError).
FindProfile(profile, parts) ==
    IF parts = <<>> THEN [status |-> "found", profile |-> profile]
    ELSE IF profile.t # "dict" THEN [status |-> "error", profile |-> profile]
    ELSE LET found == DictGet(profile, Head(parts))
         IN  IF IsNone(found) THEN [status |-> "notfound", profile |-> profile]
             ELSE FindProfile(Val(found), Tail(parts))

\* `key in profile`: "yes", "no", or "error" (TypeError: a bool is not iterable)
Contains(profile, key) ==
    CASE profile.t = "dict" -> IF key \in DOMAIN profile.v THEN "yes" ELSE "no"
      [] profile.t = "str" -> IF IsSubstring(KeyChars(key), profile.v) THEN "yes" ELSE "no"
      [] profile.t = "list" -> IF KeyChars(key) \in Range(profile.v) THEN "yes" ELSE "no"
      [] profile.t = "bool" -> "error"

\* bool(value)
Truthy(value) ==
    CASE value.t = "bool" -> value.v
      [] value.t = "str" -> value.v # <<>>
      [] value.t = "list" -> value.v # <<>>
      [] value.t = "dict" -> DOMAIN value.v # {}

\* The "Update args" block for one key: the state after it, or an error.
\* st is [status, kwargs, skip_ocr].  profile[key] on a string or a list is a
\* TypeError.  The documents used give path and name strings, keywords a list.
UpdateKey(st, profile, key) ==
    IF st.status # "ok" THEN st
    ELSE LET c == Contains(profile, key)
         IN  IF c = "no" THEN st
             ELSE IF c = "error" \/ profile.t # "dict" THEN [st EXCEPT !.status = "error"]
             ELSE CASE key = "path" -> [st EXCEPT !.kwargs.output = profile.v["path"].v]
                    [] key = "name" -> [st EXCEPT !.kwargs.name = Some(profile.v["name"].v)]
                    [] key = "ocr" -> [st EXCEPT !.skip_ocr = ~Truthy(profile.v["ocr"])]
                    [] key = "keywords" ->
                         [st EXCEPT !.kwargs.keywords = @ \cup Range(profile.v["keywords"].v)]

\* Lines 287-295 in order.
UpdateArgs(kw, skip, profile) ==
    UpdateKey(UpdateKey(UpdateKey(UpdateKey(
        [status |-> "ok", kwargs |-> kw, skip_ocr |-> skip],
        profile, "path"), profile, "name"), profile, "ocr"), profile, "keywords")

\* Mutant of ParseKeywords: the keywords are not stripped.
ParseKeywordsUnstripped(k) == {Split(k, ",")[i] : i \in 1..Len(Split(k, ","))}

\* [k.strip() for k in args['-k'].split(',')]
ParseKeywords(k) == {Strip(Split(k, ",")[i]) : i \in 1..Len(Split(k, ","))}

\* Python truthiness of an optional string argument (None and '' are false)
Given(o) == ~IsNone(o) /\ Val(o) # <<>>

\* Mutant of ArgumentOverridesOf: OUTPUT does not replace the output set before.
ArgumentOverridesKeepingOutput(kw, skip, a) ==
    LET k1 == [kw EXCEPT !.resolution = Some(a.r), !.device = Some(a.d)]
        k3 == IF Given(a.n) THEN [k1 EXCEPT !.name = a.n] ELSE k1
        k4 == IF Given(a.t) THEN [k3 EXCEPT !.datestring = a.t] ELSE k3
        k5 == IF Given(a.k) THEN [k4 EXCEPT !.keywords = @ \cup ParseKeywords(Val(a.k))] ELSE k4
    IN  [kwargs |-> k5, skip_ocr |-> (IF a.skip_ocr THEN TRUE ELSE skip)]

\* Lines 297-310.
ArgumentOverridesOf(kw, skip, a) ==
    LET k1 == [kw EXCEPT !.resolution = Some(a.r), !.device = Some(a.d)]
        k2 == IF Given(a.OUTPUT) THEN [k1 EXCEPT !.output = Val(a.OUTPUT)] ELSE k1
        k3 == IF Given(a.n) THEN [k2 EXCEPT !.name = a.n] ELSE k2
        k4 == IF Given(a.t) THEN [k3 EXCEPT !.datestring = a.t] ELSE k3
        k5 == IF Given(a.k) THEN [k4 EXCEPT !.keywords = @ \cup ParseKeywords(Val(a.k))] ELSE k4
    IN  [kwargs |-> k5, skip_ocr |-> (IF a.skip_ocr THEN TRUE ELSE skip)]

\* ------------------------------------------------------ Scan.__init__
Pdf == <<".", "p", "d", "f">>

\* filename of lines 132-135
Filename(timestamp, name) ==
    IF IsNone(name) THEN timestamp \o Pdf
    ELSE timestamp \o <<"-">> \o Slugify(Val(name)) \o Pdf

\* Mutant of OutputBranch: the dirname is not checked.
OutputBranchUnchecked(output, ds) == IF IsDir(output, ds) THEN "directory" ELSE "verbatim"

\* Which branch of lines 131-141 the output takes.
OutputBranch(output, ds) ==
    IF IsDir(output, ds) THEN "directory"
    ELSE IF Dirname(output) = <<>> \/ IsDir(Dirname(output), ds) THEN "verbatim"
    ELSE "error"

\* Mutant of OutputPath: the filename is synthesized in every branch.
OutputPathAlwaysNamed(output, name, datestring, ds) ==
    Abspath(PathJoin(output, Filename(Timestamp(datestring), name)))

\* self.output_path, when the branch is not "error"
OutputPath(output, name, datestring, ds) ==
    IF OutputBranch(output, ds) = "directory"
    THEN Abspath(PathJoin(output, Filename(Timestamp(datestring), name)))
    ELSE Abspath(output)

\* ---------------------------------------------------------------- state
VARIABLES
    args,        \* docopt's result: -p, OUTPUT, --skip-ocr, -n, -t, -k, -r, -d
    profiles,    \* the document of profiles.toml
    dirs,        \* the directories that exist, each the components of its path
    pc,          \* where the program is
    kwargs,      \* the keyword arguments collected for Scan
    skip_ocr,    \* the flag passed to Scan.process
    scan,        \* the Scan object's attributes (None until set)
    filename,    \* process's local: the file to move
    calls,       \* the external tools run so far, each with its exit code
    ocr_keywords,\* the --keywords argument given to ocrmypdf (None: not given)
    workfiles,   \* the artifacts in the working directory
    moved,       \* the move done by mv: None, or the file and its destination
    stdout,      \* the messages printed
    listed       \* the profile names printed under "Available profiles:"

vars == <<args, profiles, dirs, pc, kwargs, skip_ocr, scan, filename, calls,
          ocr_keywords, workfiles, moved, stdout, listed>>

\* ---------------------------------------------------------------- inputs
Device == <<"brother4:net1;dev0">>
Res300 == <<"3", "0", "0">>

ResAlphabet == {"0", "1", "6", "+", " ", "x"}
PathAlphabet == {"/", "a", "b"}
NameAlphabet == {"M", "y", " ", "-"}
DateAlphabet == {"2", "0", "-"}
KeywordsAlphabet == {"a", "b", ",", " "}
ProfileTokens == {"home", "sub", "name", "ocr", "."}

ResInputs ==
    StringsUpTo(ResAlphabet, MaxResLen)
      \cup {<<"2", "0", "0">>, Res300, <<"4", "0", "0">>, <<"1", "5", "0">>,
            <<"3", "_", "0", "0">>, <<"-", "3", "0", "0">>, <<"3", "0", "0", ".", "0">>,
            <<"0", "3", "0", "0">>, <<"3", "0", "0", "0">>}

TmpDir == << <<"tmp">> >>
BaseDirs == {<<>>, << <<"w">> >>, TmpDir}
DirSets ==
    {BaseDirs,
     BaseDirs \cup {<< <<"w">>, <<"a">> >>},
     BaseDirs \cup {<< <<"a">> >>, << <<"w">>, <<"a">> >>, << <<"w">>, <<"a">>, <<"b">> >>}}

\* profiles.toml:
\*   title = "My"
\*   [home]      path = "a", name = "My", ocr = false, keywords = ["h"]
\*   [home.sub]  name = "D", keywords = ["s", "h"]
\*   [work]      ocr = true
DocHome ==
    Dict([k \in {"title", "home", "work"} |->
        CASE k = "title" -> Str(<<"M", "y">>)
          [] k = "home" -> Dict([j \in {"path", "name", "ocr", "keywords", "sub"} |->
                CASE j = "path" -> Str(<<"a">>)
                  [] j = "name" -> Str(<<"M", "y">>)
                  [] j = "ocr" -> Bool(FALSE)
                  [] j = "keywords" -> List(<< <<"h">> >>)
                  [] j = "sub" -> Dict([i \in {"name", "keywords"} |->
                        CASE i = "name" -> Str(<<"D">>)
                          [] i = "keywords" -> List(<< <<"s">>, <<"h">> >>)])])
          [] k = "work" -> Dict([j \in {"ocr"} |-> Bool(TRUE)])])

\*   [home]  name = "my name", keywords = ["name"]
DocNames ==
    Dict([k \in {"home"} |-> Dict([j \in {"name", "keywords"} |->
        CASE j = "name" -> Str(<<"M", "y", " ", "n", "a", "m", "e">>)
          [] j = "keywords" -> List(<< <<"n", "a", "m", "e">> >>)])])

\* an empty document
DocEmpty == Dict([k \in {} |-> Bool(FALSE)])

Docs == {DocHome, DocNames, DocEmpty}

BaseArgs ==
    [p |-> None, OUTPUT |-> None, skip_ocr |-> FALSE, n |-> None, t |-> None,
     k |-> None, r |-> Res300, d |-> Device]

Opt(S) == {None} \cup {Some(x) : x \in S}

\* The invocations explored: each family varies some of the inputs over all
\* strings up to a bound and keeps the others at a few values.
ResolutionRuns ==
    {[args |-> [BaseArgs EXCEPT !.r = r], profiles |-> DocHome, dirs |-> BaseDirs] :
        r \in ResInputs}
OutputRuns ==
    {[args |-> [BaseArgs EXCEPT !.OUTPUT = o, !.n = n, !.t = t], profiles |-> DocHome, dirs |-> ds] :
        o \in Opt(StringsUpTo(PathAlphabet, MaxPathLen)),
        n \in {None, Some(<<"M", "y">>)},
        t \in {None, Some(<<"2", "-", "0">>)},
        ds \in DirSets}
NameRuns ==
    {[args |-> [BaseArgs EXCEPT !.OUTPUT = o, !.n = n, !.t = t], profiles |-> DocHome,
      dirs |-> BaseDirs \cup {<< <<"w">>, <<"a">> >>}] :
        o \in {None, Some(<<"a">>), Some(<<"b">>)},
        n \in Opt(StringsUpTo(NameAlphabet, MaxNameLen)),
        t \in {None, Some(<<"2", "-", "0">>)}}
DateRuns ==
    {[args |-> [BaseArgs EXCEPT !.OUTPUT = o, !.n = n, !.t = t], profiles |-> DocHome,
      dirs |-> BaseDirs \cup {<< <<"w">>, <<"a">> >>}] :
        o \in {None, Some(<<"a">>), Some(<<"b">>)},
        n \in {None, Some(<<"M", "y">>)},
        t \in Opt(StringsUpTo(DateAlphabet, MaxDateLen))}
LookupRuns ==
    {[args |-> [BaseArgs EXCEPT !.p = p], profiles |-> doc,
      dirs |-> BaseDirs \cup {<< <<"w">>, <<"a">> >>}] :
        p \in Opt(StringsUpTo(ProfileTokens, MaxProfileLen)
                   \cup {<<"home", ".", "name", ".", "sub">>, <<"title">>, <<"work">>}),
        doc \in Docs}
LayerRuns ==
    {[args |-> [BaseArgs EXCEPT !.p = p, !.OUTPUT = o, !.n = n, !.k = k, !.skip_ocr = s],
      profiles |-> DocHome, dirs |-> BaseDirs \cup {<< <<"w">>, <<"a">> >>}] :
        p \in {None, Some(<<"home">>), Some(<<"home", ".", "sub">>), Some(<<"work">>),
               Some(<<"title">>)},
        o \in {None, Some(<<>>), Some(<<"b">>)},
        n \in {None, Some(<<>>), Some(<<"D">>)},
        k \in {None, Some(<<>>), Some(<<"a">>)},
        s \in BOOLEAN}
KeywordRuns ==
    {[args |-> [BaseArgs EXCEPT !.p = p, !.k = k], profiles |-> DocHome,
      dirs |-> BaseDirs \cup {<< <<"w">>, <<"a">> >>}] :
        p \in {None, Some(<<"home">>), Some(<<"home", ".", "sub">>)},
        k \in Opt(StringsUpTo(KeywordsAlphabet, MaxKeywordsLen))}

Runs == ResolutionRuns \cup OutputRuns \cup NameRuns \cup DateRuns \cup LookupRuns
          \cup LayerRuns \cup KeywordRuns

NoScan == [resolution |-> None, device |-> None, keywords |-> None,
           output_path |-> None, workdir |-> None]
NoKwargs == [output |-> <<>>, keywords |-> {}, name |-> None, datestring |-> None,
             resolution |-> None, device |-> None]

\* The process has started and docopt has parsed the command line.
Init ==
    \E run \in Runs :
        /\ args = run.args
        /\ profiles = run.profiles
        /\ dirs = run.dirs
        /\ pc = "main"
        /\ kwargs = NoKwargs
        /\ skip_ocr = FALSE
        /\ scan = NoScan
        /\ filename = None
        /\ calls = <<>>
        /\ ocr_keywords = None
        /\ workfiles = {}
        /\ moved = None
        /\ stdout = <<>>
        /\ listed = {}

\* ------------------------------------------------------------- __main__
\* tempfile.mkdtemp(prefix='pydigitize-', suffix=...): the new directory's path
\* and the directory itself.
MkdtempPath(suffix) == <<"/", "tmp", "/", "pydigitize-XXXXXX" \o suffix>>
MkdtempDir(suffix) == << <<"tmp">>, <<"pydigitize-XXXXXX" \o suffix>> >>

\* Lines 242-249: the default output directory and the default arguments.
Main ==
    /\ pc = "main"
    /\ dirs' = dirs \cup {MkdtempDir("-out")}
    /\ kwargs' = [NoKwargs EXCEPT !.output = MkdtempPath("-out"),
                                  !.keywords = {<<"pydigitize">>}]
    /\ skip_ocr' = FALSE
    /\ pc' = "profile"
    /\ UNCHANGED <<args, profiles, scan, filename, calls, ocr_keywords, workfiles,
                   moved, stdout, listed>>

\* The lookup of lines 273-285 for the -p given.
Lookup == FindProfile(profiles, Split(Val(args.p), "."))

\* Line 252: no -p.
NoProfile ==
    /\ pc = "profile"
    /\ IsNone(args.p)
    /\ pc' = "overrides"
    /\ UNCHANGED <<args, profiles, dirs, kwargs, skip_ocr, scan, filename, calls,
                   ocr_keywords, workfiles, moved, stdout, listed>>

\* Lines 279-284: a part is missing; the message, the list, sys.exit(1).
ProfileNotFound ==
    /\ pc = "profile"
    /\ ~IsNone(args.p)
    /\ Lookup.status = "notfound"
    /\ stdout' = stdout \o <<"Profile not found", "Available profiles:">>
    /\ listed' = AllProfiles(profiles)
    /\ pc' = "exit"
    /\ UNCHANGED <<args, profiles, dirs, kwargs, skip_ocr, scan, filename, calls,
                   ocr_keywords, workfiles, moved>>

\* An uncaught exception of the lookup or of the update: .get on a value that is
\* no table, `in` on a boolean, a subscript of a string or a list.
ProfileError ==
    /\ pc = "profile"
    /\ ~IsNone(args.p)
    /\ \/ Lookup.status = "error"
       \/ /\ Lookup.status = "found"
          /\ UpdateArgs(kwargs, skip_ocr, Lookup.profile).status = "error"
    /\ pc' = "error"
    /\ UNCHANGED <<args, profiles, dirs, kwargs, skip_ocr, scan, filename, calls,
                   ocr_keywords, workfiles, moved, stdout, listed>>

\* Lines 285-295: every part was found; the value reached updates the arguments.
ProfileFound ==
    /\ pc = "profile"
    /\ ~IsNone(args.p)
    /\ Lookup.status = "found"
    /\ LET u == UpdateArgs(kwargs, skip_ocr, Lookup.profile)
       IN  /\ u.status = "ok"
           /\ kwargs' = u.kwargs
           /\ skip_ocr' = u.skip_ocr
    /\ pc' = "overrides"
    /\ UNCHANGED <<args, profiles, dirs, scan, filename, calls, ocr_keywords,
                   workfiles, moved, stdout, listed>>

\* Lines 297-314.
ArgumentOverrides ==
    /\ pc = "overrides"
    /\ LET o == ArgumentOverridesOf(kwargs, skip_ocr, args)
       IN  /\ kwargs' = o.kwargs
           /\ skip_ocr' = o.skip_ocr
    /\ pc' = "init"
    /\ UNCHANGED <<args, profiles, dirs, scan, filename, calls, ocr_keywords,
                   workfiles, moved, stdout, listed>>

\* ------------------------------------------------------ Scan.__init__
\* Lines 106-113: _invalid_res().
InvalidResolution ==
    /\ pc = "init"
    /\ ~ResolutionOk(Val(kwargs.resolution))
    /\ stdout' = Append(stdout, "Invalid resolution")
    /\ pc' = "exit"
    /\ UNCHANGED <<args, profiles, dirs, kwargs, skip_ocr, scan, filename, calls,
                   ocr_keywords, workfiles, moved, listed>>

\* Lines 115-121 then 139-141: the output is no directory and its dirname is none.
OutputError ==
    /\ pc = "init"
    /\ ResolutionOk(Val(kwargs.resolution))
    /\ OutputBranch(kwargs.output, dirs) = "error"
    /\ scan' = [scan EXCEPT !.resolution = kwargs.resolution, !.device = kwargs.device,
                            !.keywords = Some(kwargs.keywords)]
    /\ stdout' = Append(stdout, "Output directory must already exist.")
    /\ pc' = "exit"
    /\ UNCHANGED <<args, profiles, dirs, kwargs, skip_ocr, filename, calls,
                   ocr_keywords, workfiles, moved, listed>>

\* Lines 115-143: the object is constructed.
Constructed ==
    /\ pc = "init"
    /\ ResolutionOk(Val(kwargs.resolution))
    /\ OutputBranch(kwargs.output, dirs) # "error"
    /\ scan' = [scan EXCEPT !.resolution = kwargs.resolution, !.device = kwargs.device,
                            !.keywords = Some(kwargs.keywords),
                            !.output_path = Some(OutputPath(kwargs.output, kwargs.name,
                                                            kwargs.datestring, dirs))]
    /\ pc' = "process"
    /\ UNCHANGED <<args, profiles, dirs, kwargs, skip_ocr, filename, calls,
                   ocr_keywords, workfiles, moved, stdout, listed>>

\* ------------------------------------------------------- Scan.process
ExitCodes == {0, 1, 7}

\* The exit codes sh takes for success (_ok_code), by tool.
OkCodes(tool) == IF tool = "scanimage" THEN {0, 7} ELSE {0}

\* Mutants of After: the exit code is not looked at; the combine step is skipped.
AfterIgnoringExitCode(tool, code, next) == next
AfterSkippingCombine(tool, code, next) ==
    IF code \in OkCodes(tool) THEN (IF next = "combine" THEN "convert" ELSE next) ELSE "error"

\* sh runs a tool: it returns when the exit code is an ok code and raises
\* ErrorReturnCode otherwise, which nothing catches.
After(tool, code, next) == IF code \in OkCodes(tool) THEN next ELSE "error"
Ran(tool, code) == Append(calls, [tool |-> tool, code |-> code])

\* Lines 205-206: prepare_directories and cd.
PrepareDirectories ==
    /\ pc = "process"
    /\ stdout' = Append(stdout, "Creating temporary directory...")
    /\ scan' = [scan EXCEPT !.workdir = Some(MkdtempPath(""))]
    /\ dirs' = dirs \cup {MkdtempDir("")}
    /\ pc' = "scan"
    /\ UNCHANGED <<args, profiles, kwargs, skip_ocr, filename, calls, ocr_keywords,
                   workfiles, moved, listed>>

\* Line 209: scan_pages.
ScanPages ==
    /\ pc = "scan"
    /\ \E code \in ExitCodes :
          /\ calls' = Ran("scanimage", code)
          /\ pc' = After("scanimage", code, "combine")
          /\ workfiles' = IF pc' = "error" THEN workfiles ELSE workfiles \cup {"out*.tif"}
    /\ stdout' = Append(stdout, "Scanning...")
    /\ UNCHANGED <<args, profiles, dirs, kwargs, skip_ocr, scan, filename,
                   ocr_keywords, moved, listed>>

\* Line 212: combine_tiffs.
CombineTiffs ==
    /\ pc = "combine"
    /\ \E code \in ExitCodes :
          /\ calls' = Ran("tiffcp", code)
          /\ pc' = After("tiffcp", code, "convert")
          /\ workfiles' = IF pc' = "error" THEN workfiles ELSE workfiles \cup {"output.tif"}
    /\ stdout' = Append(stdout, "Combining image files...")
    /\ UNCHANGED <<args, profiles, dirs, kwargs, skip_ocr, scan, filename,
                   ocr_keywords, moved, listed>>

\* Line 215: convert_tiff_to_pdf.
ConvertTiffToPdf ==
    /\ pc = "convert"
    /\ \E code \in ExitCodes :
          /\ calls' = Ran("tiff2pdf", code)
          /\ pc' = After("tiff2pdf", code, "ocr")
          /\ workfiles' = IF pc' = "error" THEN workfiles ELSE workfiles \cup {"output.pdf"}
    /\ stdout' = Append(stdout, "Converting to PDF...")
    /\ UNCHANGED <<args, profiles, dirs, kwargs, skip_ocr, scan, filename,
                   ocr_keywords, moved, listed>>

\* Mutant of RunsOcr: the flag is ignored.
RunsOcrAlways(skip) == TRUE

\* Line 218: whether process calls do_ocr.
RunsOcr(skip) == skip = FALSE

\* Lines 218-220 and do_ocr.
DoOcr ==
    /\ pc = "ocr"
    /\ RunsOcr(skip_ocr)
    /\ ocr_keywords' = IF Val(scan.keywords) # {} THEN scan.keywords ELSE None
    /\ \E code \in ExitCodes :
          /\ calls' = Ran("ocrmypdf", code)
          /\ pc' = After("ocrmypdf", code, "move")
          /\ workfiles' = IF pc' = "error" THEN workfiles ELSE workfiles \cup {"clean.pdf"}
          /\ filename' = IF pc' = "error" THEN filename ELSE Some("clean.pdf")
    /\ stdout' = Append(stdout, "Running OCR...")
    /\ UNCHANGED <<args, profiles, dirs, kwargs, skip_ocr, scan, moved, listed>>

\* Lines 221-222.
SkipOcr ==
    /\ pc = "ocr"
    /\ ~RunsOcr(skip_ocr)
    /\ filename' = Some("output.pdf")
    /\ pc' = "move"
    /\ UNCHANGED <<args, profiles, dirs, kwargs, skip_ocr, scan, calls, ocr_keywords,
                   workfiles, moved, stdout, listed>>

\* Lines 224-229: mv and the report.
MoveFile ==
    /\ pc = "move"
    /\ \E code \in ExitCodes :
          /\ calls' = Ran("mv", code)
          /\ pc' = After("mv", code, "done")
          /\ IF pc' = "error"
             THEN /\ UNCHANGED <<workfiles, moved>>
                  /\ stdout' = Append(stdout, "Moving resulting file...")
             ELSE /\ workfiles' = workfiles \ {Val(filename)}
                  /\ moved' = Some([file |-> Val(filename), from |-> Val(scan.workdir),
                                    to |-> Val(scan.output_path)])
                  /\ stdout' = stdout \o <<"Moving resulting file...", "Done">>
    /\ UNCHANGED <<args, profiles, dirs, kwargs, skip_ocr, scan, filename,
                   ocr_keywords, listed>>

Next ==
    \/ Main
    \/ NoProfile
    \/ ProfileNotFound
    \/ ProfileError
    \/ ProfileFound
    \/ ArgumentOverrides
    \/ InvalidResolution
    \/ OutputError
    \/ Constructed
    \/ PrepareDirectories
    \/ ScanPages
    \/ CombineTiffs
    \/ ConvertTiffToPdf
    \/ DoOcr
    \/ SkipOcr
    \/ MoveFile

Spec == Init /\ [][Next]_vars

\* ================================================================ claims
\* The stages of a run.
Merged == pc \notin {"main", "profile", "overrides"} /\ ~IsNone(kwargs.resolution)
CtorRan == Merged /\ pc # "init"
CtorDone == ~IsNone(scan.output_path)
PipelineUntouched ==
    /\ calls = <<>>
    /\ IsNone(scan.workdir)
    /\ MkdtempDir("") \notin dirs
    /\ IsNone(moved)
    /\ workfiles = {}
Last(q) == q[Len(q)]
Tools == [i \in 1..Len(calls) |-> calls[i].tool]
IsPrefix(a, b) == Len(a) <= Len(b) /\ SubSeq(b, 1, Len(a)) = a
\* The directories that existed when Scan was constructed.
DirsAtInit == dirs \ {MkdtempDir("")}

\* ---- C1
\* A tool's exit counts as success when it is 0, or 7 for scanimage.
ExitedOk(c) == c.code = 0 \/ (c.tool = "scanimage" /\ c.code = 7)

\* C1: a tool that exits nonzero (other than scanimage with 7) ends the run at
\* that step: it is the last call, no tool is run twice, nothing is moved and the
\* working directory stays; scanimage exiting 0 or 7 goes on to the combine step.
C1_ToolFailureIsFatal ==
    /\ \A i \in 1..Len(calls) :
          ~ExitedOk(calls[i]) =>
              /\ i = Len(calls)
              /\ pc = "error"
              /\ IsNone(moved)
              /\ "Done" \notin Range(stdout)
              /\ MkdtempDir("") \in dirs
    /\ \A i, j \in 1..Len(calls) : calls[i].tool = calls[j].tool => i = j
    /\ (Len(calls) = 1 /\ calls[1].tool = "scanimage" /\ calls[1].code \in {0, 7})
          => pc = "combine"
    /\ pc = "error" /\ calls # <<>> => ~ExitedOk(Last(calls))

C1_Witness ==
    /\ pc = "error"
    /\ Len(calls) = 3
    /\ calls[1] = [tool |-> "scanimage", code |-> 7]
    /\ calls[3] = [tool |-> "tiff2pdf", code |-> 1]
    /\ "output.tif" \in workfiles

\* ---- C9
ExpectedTools(skip) ==
    <<"scanimage", "tiffcp", "tiff2pdf">> \o (IF skip THEN <<>> ELSE <<"ocrmypdf">>) \o <<"mv">>

\* C9: the tools run in the order scanimage, tiffcp, tiff2pdf, ocrmypdf unless
\* skipped, mv, each once and only after every earlier one succeeded, after the
\* working directory was created; the move is last and completion is reported
\* only after it.
C9_StrictSequence ==
    /\ IsPrefix(Tools, ExpectedTools(skip_ocr))
    /\ \A i \in 1..(Len(calls) - 1) : ExitedOk(calls[i])
    /\ calls # <<>> => ~IsNone(scan.workdir) /\ MkdtempDir("") \in dirs
    /\ ~IsNone(scan.workdir) => CtorDone
    /\ ~IsNone(moved) => Last(calls) = [tool |-> "mv", code |-> 0]
    /\ "Done" \in Range(stdout) <=> ~IsNone(moved)
    /\ pc = "done" <=> ~IsNone(moved)
    /\ pc = "done" => Tools = ExpectedTools(skip_ocr)

C9_Witness ==
    /\ pc = "done"
    /\ Tools = <<"scanimage", "tiffcp", "tiff2pdf", "ocrmypdf", "mv">>
    /\ Last(stdout) = "Done"

\* ---- C4
\* C4: in a run that completes, with OCR skipped ocrmypdf was never run and the
\* file moved is output.pdf; otherwise ocrmypdf ran once, right after tiff2pdf,
\* and the file moved is clean.pdf.
C4_OcrGate ==
    pc = "done" =>
        IF skip_ocr
        THEN /\ "ocrmypdf" \notin Range(Tools)
             /\ Val(moved).file = "output.pdf"
             /\ "clean.pdf" \notin workfiles
        ELSE /\ Cardinality({i \in 1..Len(calls) : calls[i].tool = "ocrmypdf"}) = 1
             /\ \E i \in 2..Len(calls) :
                   calls[i].tool = "ocrmypdf" /\ calls[i - 1].tool = "tiff2pdf"
             /\ Val(moved).file = "clean.pdf"

C4_Witness ==
    /\ pc = "done"
    /\ skip_ocr
    /\ Val(moved).file = "output.pdf"
    /\ Tools = <<"scanimage", "tiffcp", "tiff2pdf", "mv">>

\* ---- C2
\* The decimal spelling of a valid resolution.
Spelled(v) == Pad(v, 3)

\* C2: once Scan's constructor has run, a resolution that is not an integer of
\* {100, 200, 300, 400, 600} has printed the invalid-resolution message and ended
\* the process with no pipeline step run; a resolution of the set, in particular
\* each of them spelled in decimal, never gets the message.
C2_ResolutionGate ==
    CtorRan =>
        LET r == Val(kwargs.resolution)
            v == IntOf(r)
        IN  /\ (IsNone(v) \/ Val(v) \notin {100, 200, 300, 400, 600}) =>
                   /\ pc = "exit"
                   /\ Last(stdout) = "Invalid resolution"
                   /\ scan = NoScan
                   /\ PipelineUntouched
            /\ (~IsNone(v) /\ Val(v) \in {100, 200, 300, 400, 600}) =>
                   "Invalid resolution" \notin Range(stdout)
            /\ r \in {Spelled(100), Spelled(200), Spelled(300), Spelled(400), Spelled(600)} =>
                   "Invalid resolution" \notin Range(stdout)

C2_Witness ==
    /\ pc = "exit"
    /\ kwargs.resolution = Some(<<"1", "1", "0">>)
    /\ Last(stdout) = "Invalid resolution"
    /\ PipelineUntouched

\* ---- C3
\* The destination has a directory part that is an existing directory, or none.
ParentExists(output, ds) == Dirname(output) = <<>> \/ IsDir(Dirname(output), ds)

\* C3: once the constructor has reached the output path with a destination that
\* is no existing directory and whose parent does not exist, the process has
\* printed the error and ended, no working directory was made, no tool was run,
\* and neither the destination nor its parent has been created.
C3_MissingParentIsFatal ==
    (/\ CtorRan
     /\ ResolutionOk(Val(kwargs.resolution))
     /\ ~IsDir(kwargs.output, DirsAtInit)
     /\ ~ParentExists(kwargs.output, DirsAtInit)) =>
        /\ pc = "exit"
        /\ Last(stdout) = "Output directory must already exist."
        /\ ~CtorDone
        /\ PipelineUntouched
        /\ Resolve(kwargs.output) \notin dirs
        /\ Resolve(Dirname(kwargs.output)) \notin dirs

C3_Witness ==
    /\ pc = "exit"
    /\ kwargs.output = <<"b", "/", "a">>
    /\ Last(stdout) = "Output directory must already exist."
    /\ PipelineUntouched
    /\ << <<"w">>, <<"b">> >> \notin dirs

StartStamp == <<"2", "0", "1", "6", "0", "3", "2", "7", "-", "0", "9", "0", "5", "4", "0">>

\* The file of the given timestamp and name inside the directory `output`.
InDirectory(output, timestamp, name) ==
    LET dir == Abspath(output)
        file == IF IsNone(name) THEN timestamp \o <<".", "p", "d", "f">>
                ELSE timestamp \o <<"-">> \o Slugify(Val(name)) \o <<".", "p", "d", "f">>
    IN  (IF Last(dir) = "/" THEN dir ELSE dir \o <<"/">>) \o file

\* C7 as stated: in an existing directory the file is <timestamp>[-<slug>].pdf,
\* the timestamp being the start time, or the date override with its non-digits
\* stripped whenever an override is supplied.
C7_Original ==
    (CtorDone /\ IsDir(kwargs.output, DirsAtInit)) =>
        Val(scan.output_path) =
            InDirectory(kwargs.output,
                        IF IsNone(kwargs.datestring) THEN StartStamp
                        ELSE SelectSeq(Val(kwargs.datestring), IsDigit),
                        kwargs.name)

\* C7 amended: the date override with its non-digits stripped is the timestamp
\* only when it holds a digit; an override without any digit gives the start time.
C7_DirectoryFilename ==
    (CtorDone /\ IsDir(kwargs.output, DirsAtInit)) =>
        Val(scan.output_path) =
            InDirectory(kwargs.output,
                        IF IsNone(kwargs.datestring)
                           \/ SelectSeq(Val(kwargs.datestring), IsDigit) = <<>>
                        THEN StartStamp
                        ELSE SelectSeq(Val(kwargs.datestring), IsDigit),
                        kwargs.name)

C7_Witness ==
    /\ CtorDone
    /\ kwargs.output = <<"a">>
    /\ IsDir(kwargs.output, DirsAtInit)
    /\ kwargs.name = Some(<<"M", " ", "y">>)
    /\ kwargs.datestring = Some(<<"2", "-", "0">>)
    /\ scan.output_path =
          Some(<<"/", "w", "/", "a", "/", "2", "0", "-", "m", "-", "y", ".", "p", "d", "f">>)

\* ---- C5
\* The value the selected profile supplies for a key, if it does.
ProfileSupplies(key) ==
    /\ ~IsNone(args.p)
    /\ Lookup.status = "found"
    /\ Lookup.profile.t = "dict"
    /\ key \in DOMAIN Lookup.profile.v
ProfileValue(key) == Lookup.profile.v[key].v

LayeredOutput ==
    kwargs.output = IF Given(args.OUTPUT) THEN Val(args.OUTPUT)
                    ELSE IF ProfileSupplies("path") THEN ProfileValue("path")
                    ELSE <<"/", "tmp", "/", "pydigitize-XXXXXX-out">>
LayeredName ==
    kwargs.name = IF Given(args.n) THEN args.n
                  ELSE IF ProfileSupplies("name") THEN Some(ProfileValue("name"))
                  ELSE None
LayeredOcr ==
    skip_ocr = IF args.skip_ocr THEN TRUE
               ELSE IF ProfileSupplies("ocr") THEN ~ProfileValue("ocr")
               ELSE FALSE
CliKeywords == {Strip(w) : w \in Range(Split(Val(args.k), ","))}

\* C5 as stated: each of output, name, OCR toggle and keywords is the
\* command-line value when given, else the profile's, else the default.
C5_Original ==
    Merged =>
        /\ LayeredOutput
        /\ LayeredName
        /\ LayeredOcr
        /\ kwargs.keywords = IF Given(args.k) THEN CliKeywords
                             ELSE IF ProfileSupplies("keywords")
                                  THEN Range(ProfileValue("keywords"))
                             ELSE {<<"pydigitize">>}

\* C5 amended: output, name and OCR toggle are overridden layer by layer (a
\* command-line value counts when it is not empty); the keywords of the three
\* layers are united instead.
C5_LayeredConfiguration ==
    Merged =>
        /\ LayeredOutput
        /\ LayeredName
        /\ LayeredOcr
        /\ kwargs.keywords =
              {<<"pydigitize">>}
                \cup (IF ProfileSupplies("keywords") THEN Range(ProfileValue("keywords")) ELSE {})
                \cup (IF Given(args.k) THEN CliKeywords ELSE {})

C5_Witness ==
    /\ Merged
    /\ args.p = Some(<<"home">>)
    /\ args.OUTPUT = Some(<<"b">>)
    /\ IsNone(args.n)
    /\ args.k = Some(<<"a">>)
    /\ kwargs.output = <<"b">>
    /\ kwargs.name = Some(<<"M", "y">>)
    /\ skip_ocr
    /\ kwargs.keywords = {<<"pydigitize">>, <<"h">>, <<"a">>}

\* ---- C10
\* C10: when ocrmypdf is run, its --keywords are the union of 'pydigitize', the
\* selected profile's keywords and the stripped, comma-separated -k keywords; the
\* set is never empty, so --keywords is always given.
C10_KeywordsAccumulate ==
    "ocrmypdf" \in Range(Tools) =>
        /\ ~IsNone(ocr_keywords)
        /\ Val(ocr_keywords) =
              {<<"pydigitize">>}
                \cup (IF ProfileSupplies("keywords") THEN Range(ProfileValue("keywords")) ELSE {})
                \cup (IF Given(args.k) THEN CliKeywords ELSE {})
        /\ <<"pydigitize">> \in Val(ocr_keywords)
        /\ \A w \in Val(ocr_keywords) : w = <<>> \/ (w[1] # " " /\ Last(w) # " ")

C10_Witness ==
    /\ "ocrmypdf" \in Range(Tools)
    /\ args.p = Some(<<"home", ".", "sub">>)
    /\ args.k = Some(<<"a", ",", " ">>)
    /\ ocr_keywords = Some({<<"pydigitize">>, <<"s">>, <<"h">>, <<"a">>, <<>>})

\* ---- C6
\* C6: a -p name that is none of the profiles the program lists has printed
\* 'Profile not found' and the list, and ended the process before Scan is
\* constructed or any step runs.
C6_UnknownProfileIsFatal ==
    (/\ pc \notin {"main", "profile"}
     /\ ~IsNone(args.p)
     /\ Val(args.p) \notin AllProfiles(profiles)) =>
        /\ pc = "exit"
        /\ stdout = <<"Profile not found", "Available profiles:">>
        /\ listed = AllProfiles(profiles)
        /\ scan = NoScan
        /\ PipelineUntouched

====
